---- MODULE Spec2Model ----
(***************************************************************************)
(* Model of the FFmpeg GN generator engine of the repository               *)
(* (third_party/ffmpeg/chromium/scripts/generate_gn.py, exercised by       *)
(* generate_gn_unittest.py): the SourceSet algebra, the refinement of a    *)
(* list of SourceSets into pairwise disjoint sets and the reduction of a   *)
(* condition set with wildcards.                                           *)
(*                                                                         *)
(* The algebra is modelled from the values generate_gn_unittest.py pins    *)
(* down, the two algorithms from sections 4.2 and 4.3 of the               *)
(* specification, constrained by the expectations of the unit tests.       *)
(***************************************************************************)
EXTENDS Integers, Sequences, FiniteSets, TLC

VARIABLES pc, lhs, rhs, result, sets, disjoint_sets, idx,
          input_conditions, conditions, stanza,
          input_sets, source_sets, set_index, unvisited, visited,
          known_basenames, renames, observed_renames, set_conditions,
          xnn_arch, obs, ob_index, sss, source_set_list,
          run, argv, opt_index, exec_steps, cfg, world, stack, trace, calls,
          exception, setup_done

\* the state of FixObjectBasenameCollisions
collision_vars == <<input_sets, source_sets, set_index, unvisited, visited,
                    known_basenames, renames, observed_renames, set_conditions>>

\* the state of the generate_gn engine
gn_vars == <<lhs, rhs, result, sets, disjoint_sets, idx,
             input_conditions, conditions, stanza, collision_vars>>

\* the state of CombineObjectBuildsIntoSourceSets (XNNPACK)
xnn_vars == <<xnn_arch, obs, ob_index, sss, source_set_list>>

\* the state of a robosushi process and of the checkout it works in
robo_vars == <<run, argv, opt_index, exec_steps, cfg, world, stack, trace, calls,
               exception, setup_done>>

vars == <<pc, lhs, rhs, result, sets, disjoint_sets, idx,
          input_conditions, conditions, stanza, collision_vars, xnn_vars,
          robo_vars>>

(***************************************************************************)
(* Bounds of the model.                                                    *)
(***************************************************************************)
\* longest input list handed to CreatePairwiseDisjointSets
MaxSets == 3
\* number of cross products ("boxes") an input condition set is made of
MaxBoxes == 2
\* most conditions of a SourceSet whose stanza is generated
MaxConditions == 2
\* most SourceSets passed to FixObjectBasenameCollisions
MaxSourceSets == 3
\* most compile actions of one bazel aquery
MaxObjectBuilds == 3
\* most options on one robosushi command line
MaxOptions == 2
\* most invocations of robosushi in one checkout
MaxRuns == 2

(***************************************************************************)
(* Conditions: SourceListCondition(ARCHITECTURE, TARGET, PLATFORM).        *)
(***************************************************************************)
Attr == {"ARCHITECTURE", "TARGET", "PLATFORM"}

SourceListCondition(arch, target, platform) ==
  [ARCHITECTURE |-> arch, TARGET |-> target, PLATFORM |-> platform]

\* the conditions the partition inputs carry (testCreatePairwiseDisjointSets_Pair)
PartitionConditions ==
  { SourceListCondition("ia32", "Chromium", "win"),
    SourceListCondition("ia32", "Chrome", "win") }

(***************************************************************************)
(* SourceSet: a record of sources and conditions.                          *)
(***************************************************************************)
SourceSet(sources, conds) == [sources |-> sources, conditions |-> conds]

\* the source files of testCreatePairwiseDisjointSets_Pair
Files == {"common", "intel", "chrome"}

\* every SourceSet value over the bounded files and conditions
AllSourceSets ==
  { SourceSet(f, c) : f \in SUBSET Files, c \in SUBSET PartitionConditions }

\* what a producer hands to the engine: some files under one condition
InputSourceSets ==
  { s \in AllSourceSets : s.sources # {} /\ Cardinality(s.conditions) = 1 }

\* operands of the algebra: conditions non-empty, files possibly empty
OperandSourceSets == { s \in AllSourceSets : s.conditions # {} }

NoSourceSet == SourceSet({}, {})

\* bug variant: the intersection keeps only the left operand's conditions
IntersectLeftConditions(a, b) ==
  SourceSet(a.sources \cap b.sources, a.conditions)

\* bug variant: the intersection keeps the left operand's files
IntersectLeftSources(a, b) ==
  SourceSet(a.sources, a.conditions \cup b.conditions)

\* SourceSet.Intersect: common sources, union of conditions
Intersect(a, b) ==
  SourceSet(a.sources \cap b.sources, a.conditions \cup b.conditions)

\* bug variant: the difference takes the union of the conditions
DifferenceUnionConditions(a, b) ==
  SourceSet(a.sources \ b.sources, a.conditions \cup b.conditions)

\* bug variant: the difference does not remove the other operand's files
DifferenceKeepsSources(a, b) ==
  SourceSet(a.sources, a.conditions \cap b.conditions)

\* SourceSet.Difference: sources unique to a, conditions common to both
\* (testDifference_Disjoint: disjoint conditions give set())
Difference(a, b) ==
  SourceSet(a.sources \ b.sources, a.conditions \cap b.conditions)

\* bug variant: only the sources decide emptiness
IsEmptySourcesOnly(s) == Cardinality(s.sources) = 0

\* bug variant: nothing counts as empty
IsEmptyNever(s) == FALSE

\* SourceSet.IsEmpty (testDifference_Disjoint: sources without conditions
\* count as empty)
IsEmpty(s) == Cardinality(s.sources) = 0 \/ Cardinality(s.conditions) = 0

(***************************************************************************)
(* CreatePairwiseDisjointSets (spec 4.2).                                  *)
(***************************************************************************)
AllSources(atoms) == UNION { A.sources : A \in atoms }

NonEmpty(atoms) == { A \in atoms : ~IsEmpty(A) }

\* bug variant: the part of the new input that no atom covers is dropped
RefineNoRemainder(atoms, S) ==
  NonEmpty( { Intersect(A, S) : A \in atoms }
            \cup { Difference(A, Intersect(A, S)) : A \in atoms } )

\* one refinement step: every atom A is replaced by Intersect(A, S) and by
\* A minus that intersection (conditions of A unchanged), and the part of S
\* no atom covers is added with the conditions of S alone
Refine(atoms, S) ==
  NonEmpty( { Intersect(A, S) : A \in atoms }
            \cup { Difference(A, Intersect(A, S)) : A \in atoms }
            \cup { Difference(S, SourceSet(AllSources(atoms), S.conditions)) } )

\* the working collection before the first refinement step
InitialAtoms(list) == IF list = <<>> THEN {} ELSE {list[1]}

RECURSIVE RefineFrom(_, _, _)
RefineFrom(atoms, list, i) ==
  IF i > Len(list) THEN atoms
  ELSE RefineFrom(Refine(atoms, list[i]), list, i + 1)

CreatePairwiseDisjointSets(list) == RefineFrom(InitialAtoms(list), list, 2)

(***************************************************************************)
(* ReduceConditionalLogic (spec 4.3).                                      *)
(***************************************************************************)
Wildcard == "*"

\* SUPPORT_MATRIX: the values the unit tests span
Architectures == {"ia32", "x64", "arm", "arm64", "arm-neon"}
Targets == {"Chromium", "Chrome", "ChromeOS"}
Platforms == {"win", "mac", "linux", "android"}

\* on win the architectures ia32, x64, arm64 and the brandings Chromium,
\* Chrome already span the attribute (testReduceConditions)
WinArchitectures == {"ia32", "x64", "arm64"}
WinTargets == {"Chromium", "Chrome"}

\* every concrete (architecture, branding, platform) configuration
Configurations ==
  { SourceListCondition(a, t, p) : a \in Architectures, t \in Targets, p \in Platforms }

\* the configurations that exist: win has no arm, arm-neon or ChromeOS build
SupportedConfigurations ==
  { c \in Configurations :
      c.PLATFORM = "win" =>
        c.ARCHITECTURE \in WinArchitectures /\ c.TARGET \in WinTargets }

\* bug variant: the range of an attribute ignores the platform
SupportedValuesUnfiltered(attribute, condition) ==
  IF attribute = "ARCHITECTURE" THEN Architectures
  ELSE IF attribute = "TARGET" THEN Targets
  ELSE Platforms

\* bug variant: the win filter is applied on every platform
SupportedValuesAlwaysFiltered(attribute, condition) ==
  IF attribute = "ARCHITECTURE" THEN WinArchitectures
  ELSE IF attribute = "TARGET" THEN WinTargets
  ELSE Platforms

\* the values of an attribute that have to be present, next to the other two
\* values of the condition, for the attribute to be spanned
SupportedValues(attribute, condition) ==
  IF attribute = "ARCHITECTURE"
    THEN IF condition.PLATFORM = "win" THEN WinArchitectures ELSE Architectures
  ELSE IF attribute = "TARGET"
    THEN IF condition.PLATFORM = "win" THEN WinTargets ELSE Targets
  ELSE Platforms

UniversalCondition == SourceListCondition(Wildcard, Wildcard, Wildcard)

\* the condition with a wildcard on one attribute
Wildcarded(condition, attribute) == [condition EXCEPT ![attribute] = Wildcard]

\* the conditions that differ from the wildcarded condition w only by a
\* value on the scanned attribute
Group(conds, w, attribute) ==
  { c \in conds : c[attribute] # Wildcard /\ Wildcarded(c, attribute) = w }

\* all values of the scanned attribute co-occur with the other two values
Spanned(conds, w, attribute) ==
  SupportedValues(attribute, w) \subseteq { c[attribute] : c \in Group(conds, w, attribute) }

\* the (attribute, wildcarded condition) pairs that collapse in this pass
Collapses(conds) ==
  { p \in { <<attribute, Wildcarded(c, attribute)>> : attribute \in Attr, c \in conds } :
      Spanned(conds, p[2], p[1]) }

\* bug variant: the axes are scanned one after the other, each on what the
\* previous axis left
RECURSIVE ReduceAxes(_, _)
ReduceAxes(conds, axes) ==
  IF axes = <<>> THEN conds
  ELSE LET attribute == Head(axes)
           hits == { p \in Collapses(conds) : p[1] = attribute }
       IN ReduceAxes((conds \ UNION { Group(conds, p[2], p[1]) : p \in hits })
                       \cup { p[2] : p \in hits },
                     Tail(axes))

ReducePassSequential(conds) == ReduceAxes(conds, <<"ARCHITECTURE", "TARGET", "PLATFORM">>)

\* bug variant: a pass that finds nothing to collapse puts the supported
\* configurations back in place of the wildcards
ReducePassExpanding(conds) ==
  IF Collapses(conds) = {} /\ (\E c \in conds : \E attribute \in Attr : c[attribute] = Wildcard)
    THEN { config \in SupportedConfigurations : \E c \in conds :
             \A attribute \in Attr : c[attribute] \in {Wildcard, config[attribute]} }
    ELSE (conds \ UNION { Group(conds, p[2], p[1]) : p \in Collapses(conds) })
           \cup { p[2] : p \in Collapses(conds) }

\* one full pass over all axes: every spanned group is replaced by its
\* wildcarded condition
ReducePass(conds) ==
  (conds \ UNION { Group(conds, p[2], p[1]) : p \in Collapses(conds) })
    \cup { p[2] : p \in Collapses(conds) }

RECURSIVE ReduceConditionalLogic(_)
ReduceConditionalLogic(conds) ==
  IF ReducePass(conds) = conds THEN conds
  ELSE ReduceConditionalLogic(ReducePass(conds))

\* a concrete configuration matches a condition
Matches(config, condition) ==
  \A attribute \in Attr : condition[attribute] \in {Wildcard, config[attribute]}

MatchesAny(config, conds) == \E c \in conds : Matches(config, c)

(***************************************************************************)
(* SourceSet.GenerateGnStanza: the guard of a stanza is a disjunction of   *)
(* conjunctions of clauses over the GN variables (testGenerateGnStanza).   *)
(***************************************************************************)
Clause(name, value) == [name |-> name, value |-> value]

\* ia32 is x86, arm-neon is arm with the arm_use_neon switch, any other
\* architecture is its own name; a wildcard gives no clause
ArchitectureClauses(arch) ==
  IF arch = Wildcard THEN {}
  ELSE IF arch = "arm-neon"
    THEN { Clause("current_cpu", "arm"), Clause("arm_use_neon", "true") }
  ELSE IF arch = "ia32" THEN { Clause("current_cpu", "x86") }
  ELSE { Clause("current_cpu", arch) }

TargetClauses(target) ==
  IF target = Wildcard THEN {} ELSE { Clause("ffmpeg_branding", target) }

\* the GN variable that stands for a platform
PlatformVariable(platform) ==
  CASE platform = "win" -> "is_win"
    [] platform = "linux" -> "use_linux_config"
    [] platform = "mac" -> "is_apple"
    [] platform = "android" -> "is_android"

PlatformClauses(platform) ==
  IF platform = Wildcard THEN {} ELSE { Clause(PlatformVariable(platform), "true") }

\* the conjunction rendered for one condition
Conjunction(condition) ==
  PlatformClauses(condition.PLATFORM) \cup ArchitectureClauses(condition.ARCHITECTURE)
    \cup TargetClauses(condition.TARGET)

\* the guard of the stanza: one conjunction per condition, joined by ||
GenerateGnStanza(conds) == { Conjunction(c) : c \in conds }

\* the GN variables of the build of a concrete configuration
GnArgs(config) ==
  [ current_cpu |-> IF config.ARCHITECTURE = "ia32" THEN "x86"
                    ELSE IF config.ARCHITECTURE = "arm-neon" THEN "arm"
                    ELSE config.ARCHITECTURE,
    arm_use_neon |-> IF config.ARCHITECTURE = "arm-neon" THEN "true" ELSE "false",
    ffmpeg_branding |-> config.TARGET,
    is_win |-> IF config.PLATFORM = "win" THEN "true" ELSE "false",
    use_linux_config |-> IF config.PLATFORM = "linux" THEN "true" ELSE "false",
    is_apple |-> IF config.PLATFORM = "mac" THEN "true" ELSE "false",
    is_android |-> IF config.PLATFORM = "android" THEN "true" ELSE "false" ]

\* GN evaluates the guard under the variables of a build
SatisfiesGuard(args, guard) ==
  \E conjunction \in guard : \A clause \in conjunction : args[clause.name] = clause.value

(***************************************************************************)
(* FixObjectBasenameCollisions (testFixObjectBasenameCollisions).  A path  *)
(* is its folder, the "_"-separated parts of its basename, and its         *)
(* extension: a/foo.c is ("a", <<"foo">>, "c").                            *)
(***************************************************************************)
Path(folder, basename, ext) == [folder |-> folder, basename |-> basename, ext |-> ext]

RENAME_PREFIX == "autorename"

\* the files of the unit test
Paths ==
  { Path("", <<"foo">>, "c"), Path("", <<"foo">>, "asm"),
    Path("a", <<"foo">>, "c"), Path("b", <<"foo">>, "c"),
    Path("a", <<"foo">>, "S"), Path("b", <<"foo">>, "asm") }

\* bug variant: the new name leaves the folder out
RenamedWithoutFolder(source_path) ==
  [source_path EXCEPT !.basename = <<RENAME_PREFIX>> \o source_path.basename]

\* a/foo.c becomes a/autorename_a_foo.c, foo.asm becomes autorename_foo.asm
Renamed(source_path) ==
  [source_path EXCEPT !.basename =
     <<RENAME_PREFIX>>
       \o (IF source_path.folder = "" THEN <<>> ELSE <<source_path.folder>>)
       \o source_path.basename]

\* bug variant: the extension takes part in the comparison
BasenameWithExtension(source_path) == <<source_path.basename, source_path.ext>>

\* what is compared: the name without folder and without extension
Basename(source_path) == source_path.basename

\* one file of a SourceSet is looked at: a basename seen before gives a rename,
\* a new one is remembered
Visit(known, pending, source_path) ==
  IF Basename(source_path) \in known
    THEN [known |-> known,
          renames |-> pending \cup { <<source_path, Renamed(source_path)>> }]
    ELSE [known |-> known \cup { Basename(source_path) }, renames |-> pending]

\* bug variant: the old path stays next to the new one
ApplyRenamesKeepingOld(sources, pending) ==
  sources \cup { r[2] : r \in pending }

\* the sources of a SourceSet once its renames are carried out
ApplyRenames(sources, pending) ==
  (sources \ { r[1] : r \in pending }) \cup { r[2] : r \in pending }

\* every order in which the files of a SourceSet can be visited
VisitOrders(sources) ==
  { order \in [1..Cardinality(sources) -> sources] :
      \A i, j \in DOMAIN order : i # j => order[i] # order[j] }

RECURSIVE VisitInOrder(_, _, _, _)
VisitInOrder(order, i, known, pending) ==
  IF i > Len(order) THEN [known |-> known, renames |-> pending]
  ELSE LET v == Visit(known, pending, order[i])
       IN  VisitInOrder(order, i + 1, v.known, v.renames)

RECURSIVE FixFrom(_, _, _, _)
FixFrom(list, k, known, all_renames) ==
  IF k > Len(list) THEN { [source_sets |-> list, renames |-> all_renames] }
  ELSE UNION { LET v == VisitInOrder(order, 1, known, {})
               IN  FixFrom([list EXCEPT ![k] = ApplyRenames(list[k], v.renames)],
                           k + 1, v.known, all_renames \cup v.renames) :
                 order \in VisitOrders(list[k]) }

\* every result FixObjectBasenameCollisions can give on a list of SourceSets:
\* the SourceSets after renaming and the renames reported
FixObjectBasenameCollisions(list) == FixFrom(list, 1, {}, {})

(***************************************************************************)
(* XNNPACK generate_build_gn.py: ObjectBuilds scraped from bazel compile   *)
(* actions are combined into SourceSets.  A source path is the sequence of *)
(* its components; a flag -mavx is written "avx", as NameForSourceSet      *)
(* takes it (arg[2:]).                                                     *)
(***************************************************************************)
XnnSourceSet(dir, srcs, args) == [dir |-> dir, srcs |-> srcs, args |-> args]

ObjectBuild(src, dir, args) == [src |-> src, dir |-> dir, args |-> args]

\* a CppCompile action: the path after external/XNNPACK/ given to -c, and
\* the -m flags in command line order
BazelAction(path, flags) == [path |-> path, flags |-> flags]

\* _objectbuild_from_bazel_log: src is src/<path>; dir is "xnnpack" for a
\* file directly in src/src and the first directory below src/src otherwise
ObjectBuildFromBazelLog(action) ==
  LET src == <<"src">> \o action.path
  IN  ObjectBuild(src,
                  IF Len(src) = 3 THEN <<"xnnpack">> ELSE <<src[3]>>,
                  action.flags)

\* NameForSourceSet: "xnnpack", <dir>_<arch> without flags, <dir>_<flags>
\* with flags
NameForSourceSet(source_set, cpu) ==
  IF source_set.dir = <<"xnnpack">> THEN <<"xnnpack">>
  ELSE IF source_set.args = <<>> THEN source_set.dir \o <<cpu>>
  ELSE source_set.dir \o source_set.args

\* one iteration of the loop of CombineObjectBuildsIntoSourceSets over the
\* dictionary, held as a set of (name, SourceSet) entries
Combine(dict, ob, cpu) ==
  LET single == XnnSourceSet(ob.dir, {ob.src}, ob.args)
      name == NameForSourceSet(single, cpu)
  IN  IF \A e \in dict : e.name # name
        THEN dict \cup { [name |-> name, ss |-> single] }
        ELSE { IF e.name = name
                 THEN [e EXCEPT !.ss.srcs = e.ss.srcs \cup {ob.src}]
                 ELSE e : e \in dict }

(***************************************************************************)
(* Idle values of the state the running specification does not use.        *)
(***************************************************************************)
AlgebraIdle == lhs = NoSourceSet /\ rhs = NoSourceSet /\ result = NoSourceSet
PartitionIdle == sets = <<>> /\ disjoint_sets = {} /\ idx = 0
ReduceIdle == input_conditions = {} /\ conditions = {}
StanzaIdle == stanza = {}
RoboIdle ==
  /\ run = 0 /\ argv = <<>> /\ opt_index = 0 /\ exec_steps = <<>>
  /\ cfg = <<>> /\ world = <<>> /\ stack = <<>> /\ trace = <<>> /\ calls = <<>>
  /\ exception = "" /\ setup_done = FALSE
XnnIdle ==
  /\ xnn_arch = "" /\ obs = <<>> /\ ob_index = 0 /\ sss = {} /\ source_set_list = {}
CollisionsIdle ==
  /\ input_sets = <<>> /\ source_sets = <<>> /\ set_index = 0
  /\ unvisited = {} /\ visited = <<>>
  /\ known_basenames = {} /\ renames = {} /\ observed_renames = {}
  /\ set_conditions = <<>>

(***************************************************************************)
(* SpecAlgebra: one call of Intersect or Difference on two SourceSets.     *)
(***************************************************************************)
InitAlgebra ==
  /\ pc = "algebra"
  /\ lhs \in OperandSourceSets
  /\ rhs \in OperandSourceSets
  /\ result = NoSourceSet
  /\ PartitionIdle
  /\ ReduceIdle
  /\ StanzaIdle
  /\ CollisionsIdle
  /\ XnnIdle
  /\ RoboIdle

CallIntersect ==
  /\ pc = "algebra"
  /\ result' = Intersect(lhs, rhs)
  /\ pc' = "intersected"
  /\ UNCHANGED <<robo_vars, xnn_vars, collision_vars, stanza, lhs, rhs, sets, disjoint_sets, idx, input_conditions, conditions>>

CallDifference ==
  /\ pc = "algebra"
  /\ result' = Difference(lhs, rhs)
  /\ pc' = "subtracted"
  /\ UNCHANGED <<robo_vars, xnn_vars, collision_vars, stanza, lhs, rhs, sets, disjoint_sets, idx, input_conditions, conditions>>

NextAlgebra == CallIntersect \/ CallDifference

SpecAlgebra == InitAlgebra /\ [][NextAlgebra]_vars

(***************************************************************************)
(* SpecPartition: CreatePairwiseDisjointSets on a list of SourceSets, one  *)
(* input per step.                                                         *)
(***************************************************************************)
InputLists ==
  UNION { [1..n -> InputSourceSets] : n \in 0..MaxSets }

InitPartition ==
  /\ pc = "partition"
  /\ sets \in InputLists
  /\ disjoint_sets = InitialAtoms(sets)
  /\ idx = 2
  /\ AlgebraIdle
  /\ ReduceIdle
  /\ StanzaIdle
  /\ CollisionsIdle
  /\ XnnIdle
  /\ RoboIdle

RefineStep ==
  /\ pc = "partition"
  /\ idx <= Len(sets)
  /\ disjoint_sets' = Refine(disjoint_sets, sets[idx])
  /\ idx' = idx + 1
  /\ UNCHANGED <<robo_vars, xnn_vars, collision_vars, stanza, pc, lhs, rhs, result, sets, input_conditions, conditions>>

ReturnDisjointSets ==
  /\ pc = "partition"
  /\ idx > Len(sets)
  /\ pc' = "partitioned"
  /\ UNCHANGED <<robo_vars, xnn_vars, collision_vars, stanza, lhs, rhs, result, sets, disjoint_sets, idx,
                 input_conditions, conditions>>

NextPartition == RefineStep \/ ReturnDisjointSets

SpecPartition == InitPartition /\ [][NextPartition]_vars

(***************************************************************************)
(* SpecReduce: ReduceConditionalLogic on a set of conditions, one pass per *)
(* step.  The input is the union of up to MaxBoxes cross products.         *)
(***************************************************************************)
ArchitectureChoices == { {"ia32"}, {"arm"}, WinArchitectures, Architectures }
TargetChoices == { {"Chromium"}, {"Chrome"}, {"ChromeOS"}, WinTargets, Targets }
PlatformChoices == { {"win"}, {"linux"}, Platforms }

Box(archs, targets, platforms) ==
  { SourceListCondition(a, t, p) : a \in archs, t \in targets, p \in platforms }

Boxes ==
  { Box(as, ts, ps) : as \in ArchitectureChoices, ts \in TargetChoices,
                      ps \in PlatformChoices }

InputConditionSets ==
  { UNION { f[i] : i \in DOMAIN f } :
      f \in UNION { [1..n -> Boxes] : n \in 1..MaxBoxes } }

InitReduce ==
  /\ pc = "reduce"
  /\ input_conditions \in InputConditionSets
  /\ conditions = input_conditions
  /\ AlgebraIdle
  /\ PartitionIdle
  /\ StanzaIdle
  /\ CollisionsIdle
  /\ XnnIdle
  /\ RoboIdle

ReducePassStep ==
  /\ pc = "reduce"
  /\ ReducePass(conditions) # conditions
  /\ conditions' = ReducePass(conditions)
  /\ UNCHANGED <<robo_vars, xnn_vars, collision_vars, stanza, pc, lhs, rhs, result, sets, disjoint_sets, idx, input_conditions>>

ReturnReduced ==
  /\ pc = "reduce"
  /\ ReducePass(conditions) = conditions
  /\ pc' = "reduced"
  /\ UNCHANGED <<robo_vars, xnn_vars, collision_vars, stanza, lhs, rhs, result, sets, disjoint_sets, idx,
                 input_conditions, conditions>>

NextReduce == ReducePassStep \/ ReturnReduced

SpecReduce == InitReduce /\ [][NextReduce]_vars

\* every non-empty set of configurations of a small part of the support
\* matrix: all of win, and ia32 on linux
TerminationConfigurations ==
  { c \in SupportedConfigurations :
      \/ c.PLATFORM = "win"
      \/ c.PLATFORM = "linux" /\ c.ARCHITECTURE = "ia32" /\ c.TARGET \in WinTargets }

InitTermination ==
  /\ pc = "reduce"
  /\ input_conditions \in (SUBSET TerminationConfigurations) \ {{}}
  /\ conditions = input_conditions
  /\ AlgebraIdle
  /\ PartitionIdle
  /\ StanzaIdle
  /\ CollisionsIdle
  /\ XnnIdle
  /\ RoboIdle

\* the loop of ReduceConditionalLogic keeps running until it returns
SpecReduceFair == InitTermination /\ [][NextReduce]_vars /\ WF_vars(NextReduce)

(***************************************************************************)
(* SpecStanza: GenerateGnStanza on a SourceSet with up to MaxConditions    *)
(* conditions, wildcards included.                                         *)
(***************************************************************************)
StanzaConditions ==
  { SourceListCondition(a, t, p) :
      a \in {"ia32", "x64", "arm", "arm-neon", Wildcard},
      t \in {"Chromium", "Chrome", Wildcard},
      p \in {"win", "linux", "mac", Wildcard} }

StanzaConditionSets ==
  { { f[i] : i \in DOMAIN f } :
      f \in UNION { [1..n -> StanzaConditions] : n \in 1..MaxConditions } }

InitStanza ==
  /\ pc = "stanza"
  /\ conditions \in StanzaConditionSets
  /\ input_conditions = conditions
  /\ stanza = {}
  /\ AlgebraIdle
  /\ PartitionIdle
  /\ CollisionsIdle
  /\ XnnIdle
  /\ RoboIdle

CallGenerateGnStanza ==
  /\ pc = "stanza"
  /\ stanza' = GenerateGnStanza(conditions)
  /\ pc' = "rendered"
  /\ UNCHANGED <<robo_vars, xnn_vars, collision_vars, lhs, rhs, result, sets, disjoint_sets, idx,
                 input_conditions, conditions>>

NextStanza == CallGenerateGnStanza

SpecStanza == InitStanza /\ [][NextStanza]_vars

(***************************************************************************)
(* SpecCollisions: FixObjectBasenameCollisions(disjoint_sets, [], cb) on   *)
(* up to MaxSourceSets pairwise disjoint SourceSets of one or two files.   *)
(* The files of a SourceSet are a Python set: the order in which they are  *)
(* visited is not fixed.                                                   *)
(***************************************************************************)
SourceChoices == { S \in SUBSET Paths : Cardinality(S) \in {1, 2} }

CollisionInputs ==
  { l \in UNION { [1..n -> SourceChoices] : n \in 0..MaxSourceSets } :
      \A i, j \in DOMAIN l : i # j => l[i] \cap l[j] = {} }

InitCollisions ==
  /\ pc = "collisions"
  /\ input_sets \in CollisionInputs
  /\ source_sets = input_sets
  /\ set_index = 1
  /\ unvisited = IF input_sets = <<>> THEN {} ELSE input_sets[1]
  /\ visited = <<>>
  /\ known_basenames = {}
  /\ renames = {}
  /\ observed_renames = {}
  /\ \E conds \in { {UniversalCondition}, PartitionConditions } :
       set_conditions = [i \in DOMAIN input_sets |-> conds]
  /\ AlgebraIdle
  /\ PartitionIdle
  /\ ReduceIdle
  /\ StanzaIdle
  /\ XnnIdle
  /\ RoboIdle

\* for source_path in source_set.sources
VisitSource ==
  /\ pc = "collisions"
  /\ \E source_path \in unvisited :
       LET v == Visit(known_basenames, renames, source_path) IN
         /\ known_basenames' = v.known
         /\ renames' = v.renames
         /\ unvisited' = unvisited \ {source_path}
         /\ visited' = Append(visited, source_path)
  /\ UNCHANGED <<robo_vars, xnn_vars, pc, lhs, rhs, result, sets, disjoint_sets, idx, input_conditions,
                 conditions, stanza, input_sets, source_sets, set_index,
                 observed_renames, set_conditions>>

\* the renames of the SourceSet just visited are carried out and reported
RenameSources ==
  /\ pc = "collisions"
  /\ unvisited = {}
  /\ set_index <= Len(source_sets)
  /\ source_sets' =
       [source_sets EXCEPT ![set_index] = ApplyRenames(source_sets[set_index], renames)]
  /\ observed_renames' = observed_renames \cup renames
  /\ renames' = {}
  /\ set_index' = set_index + 1
  /\ unvisited' = IF set_index < Len(source_sets) THEN source_sets[set_index + 1] ELSE {}
  /\ UNCHANGED <<robo_vars, xnn_vars, pc, lhs, rhs, result, sets, disjoint_sets, idx, input_conditions,
                 conditions, stanza, input_sets, visited, known_basenames,
                 set_conditions>>

ReturnFixed ==
  /\ pc = "collisions"
  /\ set_index > Len(source_sets)
  /\ pc' = "fixed"
  /\ UNCHANGED <<robo_vars, xnn_vars, lhs, rhs, result, sets, disjoint_sets, idx, input_conditions,
                 conditions, stanza, collision_vars>>

NextCollisions == VisitSource \/ RenameSources \/ ReturnFixed

SpecCollisions == InitCollisions /\ [][NextCollisions]_vars

(***************************************************************************)
(* SpecComplex: CreatePairwiseDisjointSets on SourceSets whose conditions  *)
(* carry values outside the attribute ranges, as                           *)
(* testComplexSourceListConditions passes them.                            *)
(***************************************************************************)
ComplexConditions ==
  { SourceListCondition("x86", "c", "win"), SourceListCondition("x64", "c", "linux") }

\* the values an attribute is declared to take, the wildcard included
InDomain(condition) ==
  /\ condition.ARCHITECTURE \in Architectures \cup {Wildcard}
  /\ condition.TARGET \in Targets \cup {Wildcard}
  /\ condition.PLATFORM \in Platforms \cup {Wildcard}

ComplexSourceSets ==
  { SourceSet(sources, {c}) : sources \in (SUBSET Files) \ {{}}, c \in ComplexConditions }

ComplexInputLists ==
  UNION { [1..n -> ComplexSourceSets] : n \in 1..MaxSets }

InitComplex ==
  /\ pc = "partition"
  /\ sets \in ComplexInputLists
  /\ disjoint_sets = InitialAtoms(sets)
  /\ idx = 2
  /\ AlgebraIdle
  /\ ReduceIdle
  /\ StanzaIdle
  /\ CollisionsIdle
  /\ XnnIdle
  /\ RoboIdle

SpecComplex == InitComplex /\ [][NextPartition]_vars

(***************************************************************************)
(* SpecXnnpack: CombineObjectBuildsIntoSourceSets(obs, arch) on the        *)
(* ObjectBuilds of up to MaxObjectBuilds compile actions.  The returned    *)
(* pair is held as the set of its SourceSets, the xnnpack one included.    *)
(***************************************************************************)
XnnPaths ==
  { <<"src", "init.c">>, <<"src", "operators", "add.c">>,
    <<"src", "f32-gemm", "gen", "neon.c">>, <<"src", "f32-gemm", "gen-inc", "neon.c">>,
    <<"src", "f32-gemm", "neon.c">> }

XnnFlags == { <<>>, <<"avx">>, <<"avx", "fma">> }

BazelActions == { BazelAction(path, flags) : path \in XnnPaths, flags \in XnnFlags }

InitXnnpack ==
  /\ pc = "combine"
  /\ xnn_arch \in {"x64", "arm64"}
  /\ \E actions \in UNION { [1..n -> BazelActions] : n \in 1..MaxObjectBuilds } :
       obs = [i \in DOMAIN actions |-> ObjectBuildFromBazelLog(actions[i])]
  /\ ob_index = 1
  /\ sss = {}
  /\ source_set_list = {}
  /\ AlgebraIdle
  /\ PartitionIdle
  /\ ReduceIdle
  /\ StanzaIdle
  /\ CollisionsIdle
  /\ RoboIdle

\* for ob in obs
CombineObjectBuild ==
  /\ pc = "combine"
  /\ ob_index <= Len(obs)
  /\ sss' = Combine(sss, obs[ob_index], xnn_arch)
  /\ ob_index' = ob_index + 1
  /\ UNCHANGED <<robo_vars, pc, gn_vars, xnn_arch, obs, source_set_list>>

\* sss.pop('xnnpack') and the return of both parts
ReturnSourceSets ==
  /\ pc = "combine"
  /\ ob_index > Len(obs)
  /\ \E e \in sss : e.name = <<"xnnpack">>
  /\ source_set_list' = { e.ss : e \in sss }
  /\ pc' = "combined"
  /\ UNCHANGED <<robo_vars, gn_vars, xnn_arch, obs, ob_index, sss>>

\* sss.pop('xnnpack') raises KeyError when no source lies directly in src/src
RaiseKeyError ==
  /\ pc = "combine"
  /\ ob_index > Len(obs)
  /\ \A e \in sss : e.name # <<"xnnpack">>
  /\ pc' = "KeyError"
  /\ UNCHANGED <<robo_vars, gn_vars, xnn_vars>>

NextXnnpack == CombineObjectBuild \/ ReturnSourceSets \/ RaiseKeyError

SpecXnnpack == InitXnnpack /\ [][NextXnnpack]_vars

(***************************************************************************)
(* robosushi: the steps table and RunSteps (robosushi.py), the             *)
(* configuration (robo_lib/config.py), the shell helpers                   *)
(* (robo_lib/shell.py) and the step functions with an effect on the        *)
(* branch, the ASAN directory or the build output (robo_setup.py,          *)
(* robo_build.py, robo_branch.py).                                         *)
(***************************************************************************)
SetupSteps ==
  << "install_prereqs", "ensure_toolchains", "ensure_new_asan_dir", "ensure_nasm",
     "ensure_remote" >>

AutoMergeSteps ==
  << "erase_build_output", "create_sushi_branch", "merge_from_upstream",
     "push_merge_to_origin", "build_gn_configs", "update_patches_file",
     "update_chromium_readme", "run_tests", "upload_for_review",
     "merge_back_to_origin", "start_real_deps_roll", "print_happy_message" >>

\* the keys of the dictionary steps
StepKeys ==
  { "install_prereqs", "ensure_toolchains", "ensure_new_asan_dir", "ensure_nasm",
    "ensure_remote", "setup", "erase_build_output", "create_sushi_branch",
    "merge_from_upstream", "push_merge_to_origin", "build_gn_configs",
    "update_patches_file", "update_chromium_readme", "run_tests",
    "upload_for_review", "merge_back_to_origin", "start_fake_deps_roll",
    "start_real_deps_roll", "win_the_game", "download_mac_sdk", "auto-merge" }

\* the steps with a "skip_fn" entry
SkipFnSteps ==
  { "build_gn_configs", "update_patches_file", "update_chromium_readme",
    "upload_for_review" }

\* the steps whose do_fn is a lambda calling RunSteps
RollUpSteps == { "setup", "auto-merge" }

RollUp(name) == IF name = "setup" THEN SetupSteps ELSE AutoMergeSteps

\* a branch name: its sushi prefix, if it has one, and what follows
BranchName(prefix, stamp) == [prefix |-> prefix, stamp |-> stamp]

None == BranchName("None", 0)

Master == BranchName("", 0)

sushi_branch_prefix == "sushi-"

\* RoboConfiguration.SetBranchName
SetBranchName(config, name) ==
  [config EXCEPT
     !.branch_name = name,
     !.sushi_branch_name =
        IF name # None /\ name.prefix # sushi_branch_prefix THEN None ELSE name]

\* RoboConfiguration.__init__: no prompt, no forced rebuild, skipping
\* allowed, the branch name read from git
RoboConfiguration(head) ==
  SetBranchName([prompt_on_call |-> FALSE, force_gn_rebuild |-> FALSE,
                 skip_allowed |-> TRUE, branch_name |-> None,
                 sushi_branch_name |-> None], head)

\* shell.check_run through RoboConfiguration.Call: raises RuntimeError on a
\* non-zero return code and returns None otherwise
Call(returncode) ==
  IF returncode # 0 THEN [raised |-> TRUE, value |-> "None"]
  ELSE [raised |-> FALSE, value |-> "None"]

\* Python truth of what Call returns
Truthy(value) == value # "None"

BuildDirs == { "build.x64.linux", "build.arm.android" }

\* what a step function leaves behind: configuration, tree and the
\* exception it raised ("" when it returned)
Outcome(config, tree, raised) ==
  [cfg |-> config, world |-> tree, exception |-> raised]

\* bug variant: the build output is erased on every branch
ObliterateOldBuildOutputAlways(config, tree, removed) ==
  Outcome(config, [tree EXCEPT !.build_output = @ \ removed],
          IF removed = tree.build_output THEN "" ELSE "RuntimeError")

\* robo_build.ObliterateOldBuildOutputIfNeeded; removed are the directories
\* whose rm -r succeeds before one fails
ObliterateOldBuildOutputIfNeeded(config, tree, removed) ==
  IF config.sushi_branch_name # None THEN Outcome(config, tree, "")
  ELSE Outcome(config, [tree EXCEPT !.build_output = @ \ removed],
               IF removed = tree.build_output THEN "" ELSE "RuntimeError")

\* robo_branch.CreateAndCheckoutDatedSushiBranch behind its
\* RequiresCleanWorkingDirectory wrapper; git gives the return codes
CreateAndCheckoutDatedSushiBranch(config, tree, git, now) ==
  LET branch_name == BranchName(sushi_branch_prefix, now)
      created == [tree EXCEPT !.branches = @ \cup {branch_name}]
  IN  IF ~git.clean THEN Outcome(config, tree, "Working directory is not clean.")
      ELSE IF Call(git.fetch).raised THEN Outcome(config, tree, "RuntimeError")
      ELSE IF Truthy(Call(git.fetch).value)
        THEN Outcome(config, tree, "Could not fetch from origin")
      ELSE IF Call(git.branch).raised THEN Outcome(config, tree, "RuntimeError")
      ELSE IF Truthy(Call(git.branch).value)
        THEN Outcome(config, tree, "Could not create branch")
      ELSE IF Call(git.checkout).raised THEN Outcome(config, created, "RuntimeError")
      ELSE IF Truthy(Call(git.checkout).value)
        THEN Outcome(config, tree, "Could not checkout branch")
      ELSE Outcome(SetBranchName(config, branch_name),
                   [created EXCEPT !.head = branch_name], "")

\* robo_branch.CreateAndCheckoutDatedSushiBranchIfNeeded
CreateAndCheckoutDatedSushiBranchIfNeeded(config, tree, git, now) ==
  IF config.sushi_branch_name # None THEN Outcome(config, tree, "")
  ELSE IF git.untracked_autorenames
    THEN Outcome(config, tree, "Untracked autorename files found.")
  ELSE CreateAndCheckoutDatedSushiBranch(config, tree, git, now)

\* robo_setup.EnsureNewASANDirWorks
EnsureNewASANDirWorks(config, tree, gn_gen) ==
  IF tree.asan_dir THEN Outcome(config, tree, "asan dir already exists")
  ELSE IF Call(gn_gen).raised
    THEN Outcome(config, [tree EXCEPT !.asan_dir = TRUE], "RuntimeError")
  ELSE IF Truthy(Call(gn_gen).value)
    THEN Outcome(config, [tree EXCEPT !.asan_dir = TRUE], "Unable to gn gen")
  ELSE Outcome(config, [tree EXCEPT !.asan_dir = TRUE], "")

\* the return codes git can give CreateAndCheckoutDatedSushiBranchIfNeeded:
\* everything works, or one thing fails
GitResults ==
  { [untracked_autorenames |-> u, clean |-> c, fetch |-> f, branch |-> b, checkout |-> k] :
      u \in BOOLEAN, c \in BOOLEAN, f \in {0, 1}, b \in {0, 1}, k \in {0, 1} }

\* every way the do_fn of a step can end in a configuration and a checkout
DoFnOutcomes(name, config, tree, now) ==
  CASE name = "erase_build_output" ->
         { ObliterateOldBuildOutputIfNeeded(config, tree, removed) :
             removed \in SUBSET tree.build_output }
    [] name = "create_sushi_branch" ->
         { CreateAndCheckoutDatedSushiBranchIfNeeded(config, tree, git, now) :
             git \in GitResults }
    [] name = "ensure_new_asan_dir" ->
         { EnsureNewASANDirWorks(config, tree, gn_gen) : gn_gen \in {0, 1} }
    [] name = "build_gn_configs" ->
         { Outcome(config, [tree EXCEPT !.build_output = BuildDirs], ""),
           Outcome(config, tree, "RuntimeError") }
    [] OTHER ->
         { Outcome(config, tree, ""), Outcome(config, tree, "RuntimeError") }

\* bug variant: a forced rebuild is not looked at
AreGnConfigsDoneUnforced(config, committed) == committed

\* robosushi.AreGnConfigsDone; committed is what IsCommitOnThisBranch finds
AreGnConfigsDone(config, committed) ==
  IF config.force_gn_rebuild THEN FALSE ELSE committed

\* what the skip_fn of a step can answer: "True", "False", or an exception
\* of the git command it runs
SkipFnResults(name, config) ==
  IF name = "build_gn_configs"
    THEN { IF AreGnConfigsDone(config, committed) THEN "True" ELSE "False" :
             committed \in BOOLEAN }
         \cup (IF config.force_gn_rebuild THEN {} ELSE { "raised" })
    ELSE { "True", "False", "raised" }

\* one entry of the log of a run
Event(name, skip_fn, do_fn) ==
  [step |-> name, skip_fn |-> skip_fn, do_fn |-> do_fn]

\* one invocation of RunSteps in progress: its list and the index of the
\* step the loop is at
Frame(names, i) == [step_names |-> names, i |-> i]

(***************************************************************************)
(* robosushi as a process: main applies the options one by one and calls   *)
(* RunSteps; RunSteps walks its list, and a roll-up step calls RunSteps    *)
(* again.  A later invocation of the script finds the world the earlier    *)
(* one left.                                                               *)
(***************************************************************************)
Option(opt, arg) == [opt |-> opt, arg |-> arg]

\* the step lists given to --step
StepArgs ==
  { << "erase_build_output", "create_sushi_branch", "build_gn_configs",
       "upload_for_review", "erase_build_output" >>,
    << "run_tests", "no_such_step", "win_the_game" >> }

\* the options that select steps or change the configuration
Options ==
  { Option(o, <<>>) :
      o \in { "--prompt", "--setup", "--auto-merge", "--no-skip", "--force-gn-rebuild" } }
    \cup { Option("--step", arg) : arg \in StepArgs }

CommandLines == UNION { [1..n -> Options] : n \in 0..MaxOptions }

\* a checkout on master, with or without an ASAN directory and build output
Worlds ==
  { [asan_dir |-> a, build_output |-> b, head |-> Master, branches |-> {Master}] :
      a \in BOOLEAN, b \in {{}, BuildDirs} }

\* the checkout before robosushi is started for the first time
InitRobo ==
  /\ pc = "shell"
  /\ AlgebraIdle
  /\ PartitionIdle
  /\ ReduceIdle
  /\ StanzaIdle
  /\ CollisionsIdle
  /\ XnnIdle
  /\ run = 0
  /\ argv = <<>>
  /\ opt_index = 0
  /\ exec_steps = <<>>
  /\ world \in Worlds
  /\ cfg = <<>>
  /\ stack = <<>>
  /\ trace = <<>>
  /\ calls = <<>>
  /\ exception = ""
  /\ setup_done = FALSE

\* robosushi is started with a command line: main builds the configuration
\* from the checkout as it finds it, and has selected no steps yet
StartMain ==
  /\ pc = "shell"
  /\ run < MaxRuns
  /\ run' = run + 1
  /\ argv' \in CommandLines
  /\ opt_index' = 1
  /\ exec_steps' = <<>>
  /\ cfg' = RoboConfiguration(world.head)
  /\ pc' = "main"
  /\ UNCHANGED <<gn_vars, xnn_vars, world, stack, trace, calls, exception, setup_done>>

\* the frame of the innermost RunSteps and the step its loop is at
Top == stack[Len(stack)]

AtStep == Len(stack) > 0 /\ Top.i <= Len(Top.step_names)

step_name == Top.step_names[Top.i]

\* bug variant: the loop passes over the step after the current one
AdvancePastNext == [stack EXCEPT ![Len(stack)].i = @ + 2]

Advance == [stack EXCEPT ![Len(stack)].i = @ + 1]

\* one pass of the option loop of main: the option is applied, then
\* RunSteps is called with the steps selected so far
ApplyOption ==
  /\ pc = "main"
  /\ opt_index <= Len(argv)
  /\ LET opt == argv[opt_index].opt
         arg == argv[opt_index].arg
         steps_now == CASE opt = "--setup" -> << "setup" >>
                        [] opt = "--auto-merge" -> << "auto-merge" >>
                        [] opt = "--step" -> arg
                        [] OTHER -> exec_steps
         cfg_now == CASE opt = "--prompt" -> [cfg EXCEPT !.prompt_on_call = TRUE]
                      [] opt = "--no-skip" -> [cfg EXCEPT !.skip_allowed = FALSE]
                      [] opt = "--force-gn-rebuild" -> [cfg EXCEPT !.force_gn_rebuild = TRUE]
                      [] OTHER -> cfg
     IN  /\ exec_steps' = steps_now
         /\ cfg' = cfg_now
         /\ stack' = << Frame(steps_now, 1) >>
         /\ calls' = Append(calls, [step_names |-> steps_now, cfg |-> cfg_now,
                                    applied |-> opt_index])
  /\ pc' = "RunSteps"
  /\ UNCHANGED <<gn_vars, xnn_vars, run, argv, opt_index, world, trace, exception, setup_done>>

\* the loop of main is through
ExitMain ==
  /\ pc = "main"
  /\ opt_index > Len(argv)
  /\ pc' = "exited"
  /\ UNCHANGED <<gn_vars, xnn_vars, robo_vars>>

\* RunSteps: the step name is no key of steps
RaiseUnknownStep ==
  /\ pc = "RunSteps"
  /\ AtStep
  /\ step_name \notin StepKeys
  /\ pc' = "raised"
  /\ exception' = "Unknown step"
  /\ UNCHANGED <<gn_vars, xnn_vars, run, argv, opt_index, exec_steps, cfg, world, stack,
                 trace, calls, setup_done>>

\* RunSteps: the skip_fn of the step is called and answers True, or raises
SkipStep ==
  /\ pc = "RunSteps"
  /\ AtStep
  /\ step_name \in StepKeys
  /\ cfg.skip_allowed /\ step_name \in SkipFnSteps
  /\ \E skipped \in SkipFnResults(step_name, cfg) \ { "False" } :
       /\ trace' = Append(trace, Event(step_name, skipped, "not called"))
       /\ IF skipped = "True"
            THEN /\ stack' = Advance
                 /\ UNCHANGED <<pc, exception>>
            ELSE /\ pc' = "raised"
                 /\ exception' = "RuntimeError"
                 /\ UNCHANGED stack
  /\ UNCHANGED <<gn_vars, xnn_vars, run, argv, opt_index, exec_steps, cfg, world, calls,
                 setup_done>>

\* RunSteps: the do_fn of a plain step is called, after its skip_fn answered
\* False where one is asked
DoStep ==
  /\ pc = "RunSteps"
  /\ AtStep
  /\ step_name \in StepKeys \ RollUpSteps
  /\ LET asked == cfg.skip_allowed /\ step_name \in SkipFnSteps
     IN  /\ asked => "False" \in SkipFnResults(step_name, cfg)
         /\ \E done \in DoFnOutcomes(step_name, cfg, world, run) :
              /\ cfg' = done.cfg
              /\ world' = done.world
              /\ trace' = Append(trace,
                   Event(step_name, IF asked THEN "False" ELSE "not called",
                         IF done.exception = "" THEN "returned" ELSE "raised"))
              /\ IF done.exception = ""
                   THEN /\ stack' = Advance
                        /\ UNCHANGED <<pc, exception>>
                   ELSE /\ pc' = "raised"
                        /\ exception' = done.exception
                        /\ UNCHANGED stack
  /\ UNCHANGED <<gn_vars, xnn_vars, run, argv, opt_index, exec_steps, calls, setup_done>>

\* RunSteps: the do_fn of a roll-up calls RunSteps with the steps it lists
DoRollUp ==
  /\ pc = "RunSteps"
  /\ AtStep
  /\ step_name \in RollUpSteps
  /\ stack' = Append(stack, Frame(RollUp(step_name), 1))
  /\ trace' = Append(trace, Event(step_name, "not called", "called"))
  /\ UNCHANGED <<gn_vars, xnn_vars, pc, run, argv, opt_index, exec_steps, cfg, world, calls,
                 exception, setup_done>>

\* RunSteps: the list is through; the caller, a roll-up or main, goes on
ReturnFromRunSteps ==
  /\ pc = "RunSteps"
  /\ Len(stack) > 0
  /\ ~AtStep
  /\ setup_done' = (setup_done \/ Top.step_names = SetupSteps)
  /\ IF Len(stack) = 1
       THEN /\ stack' = <<>>
            /\ pc' = "main"
            /\ opt_index' = opt_index + 1
       ELSE /\ stack' = [SubSeq(stack, 1, Len(stack) - 1) EXCEPT ![Len(stack) - 1].i = @ + 1]
            /\ UNCHANGED <<pc, opt_index>>
  /\ UNCHANGED <<gn_vars, xnn_vars, run, argv, exec_steps, cfg, world, trace, calls, exception>>

\* the process is over: what stays is the checkout
ProcessEnds ==
  /\ pc \in { "exited", "raised" }
  /\ pc' = "shell"
  /\ argv' = <<>>
  /\ opt_index' = 0
  /\ exec_steps' = <<>>
  /\ cfg' = <<>>
  /\ stack' = <<>>
  /\ trace' = <<>>
  /\ calls' = <<>>
  /\ exception' = ""
  /\ UNCHANGED <<gn_vars, xnn_vars, run, world, setup_done>>

NextRobo ==
  \/ StartMain
  \/ ApplyOption
  \/ ExitMain
  \/ RaiseUnknownStep
  \/ SkipStep
  \/ DoStep
  \/ DoRollUp
  \/ ReturnFromRunSteps
  \/ ProcessEnds

SpecRobo == InitRobo /\ [][NextRobo]_vars


(***************************************************************************)
(* Properties of the SourceSet algebra (SpecAlgebra).                      *)
(***************************************************************************)

DifferenceKeepsLeftConditions ==
  pc = "subtracted" =>
    /\ result.sources = { f \in Files : f \in lhs.sources /\ f \notin rhs.sources }
    /\ result.conditions = lhs.conditions

\* C10 amended: Difference(a, b) has the files of a that are not in b and the
\* conditions that a and b have in common; they are the conditions of a
\* exactly when every condition of a is a condition of b.
DifferenceContract ==
  pc = "subtracted" =>
    /\ result.sources = { f \in Files : f \in lhs.sources /\ f \notin rhs.sources }
    /\ result.conditions = { c \in lhs.conditions : c \in rhs.conditions }
    /\ (result.conditions = lhs.conditions <=> lhs.conditions \subseteq rhs.conditions)

\* C10 witness: a difference of overlapping SourceSets where b has a
\* condition a lacks (testDifference_Overlap)
DifferenceOverlapReached ==
  /\ pc = "subtracted"
  /\ lhs.sources \cap rhs.sources # {}
  /\ result.sources # {}
  /\ rhs.conditions \ lhs.conditions # {}
  /\ result.conditions = lhs.conditions

\* C11: when a and b share no file and no condition, a.Difference(b) keeps
\* all the sources of a, has no condition and reports IsEmpty.
DifferenceDisjointIsEmpty ==
  (/\ pc = "subtracted"
   /\ lhs.sources \cap rhs.sources = {}
   /\ lhs.conditions \cap rhs.conditions = {})
    => /\ result.sources = lhs.sources
       /\ result.conditions = {}
       /\ IsEmpty(result)

\* C11 witness: the difference of two SourceSets with files, none in common,
\* and with different single conditions (testDifference_Disjoint)
DifferenceDisjointReached ==
  /\ pc = "subtracted"
  /\ Cardinality(lhs.sources) = 2 /\ rhs.sources # {}
  /\ lhs.sources \cap rhs.sources = {}
  /\ lhs.conditions \cap rhs.conditions = {}
  /\ result.sources = lhs.sources

(***************************************************************************)
(* Properties of ReduceConditionalLogic (SpecReduce).                      *)
(***************************************************************************)

\* C5 as stated: the reduced conditions match exactly the concrete
\* (architecture, branding, platform) configurations the input matches.
ReductionMatchesSameConfigurations ==
  pc = "reduced" =>
    \A config \in Configurations :
      MatchesAny(config, input_conditions) <=> MatchesAny(config, conditions)

\* C5 amended: the reduced conditions match exactly the supported
\* configurations the input matches, and every configuration the input
\* matches; a wildcard only adds configurations that are not supported.
ReductionSoundness ==
  pc = "reduced" =>
    /\ \A config \in SupportedConfigurations :
         MatchesAny(config, input_conditions) <=> MatchesAny(config, conditions)
    /\ \A config \in Configurations :
         MatchesAny(config, input_conditions) => MatchesAny(config, conditions)

\* C5 witness: a reduction that introduced a wildcard and left another
\* condition concrete
ReductionWithWildcardReached ==
  /\ pc = "reduced"
  /\ \E c \in conditions : \E attribute \in Attr : c[attribute] = Wildcard
  /\ \E c \in conditions : \A attribute \in Attr : c[attribute] # Wildcard
  /\ conditions # input_conditions

\* a condition that covers everything the other condition covers
Subsumes(d, c) == \A attribute \in Attr : d[attribute] \in {Wildcard, c[attribute]}

\* C6: every group of input conditions that spans an attribute is replaced
\* by a wildcard condition, the collapsing is repeated until nothing spans,
\* and the three spans of the unit tests reduce to one condition each.
CollapseToFixedPoint ==
  pc = "reduced" =>
    /\ \A attribute \in Attr : \A c \in input_conditions :
         Spanned(input_conditions, Wildcarded(c, attribute), attribute) =>
           /\ c \notin conditions
           /\ \E d \in conditions : Subsumes(d, Wildcarded(c, attribute))
    /\ \A attribute \in Attr : \A c \in conditions :
         ~Spanned(conditions, Wildcarded(c, attribute), attribute)
    /\ input_conditions = Box(Architectures, {"Chromium"}, {"linux"})
         => conditions = { SourceListCondition(Wildcard, "Chromium", "linux") }
    /\ input_conditions = Box(WinArchitectures, WinTargets, {"win"})
         => conditions = { SourceListCondition(Wildcard, Wildcard, "win") }
    /\ input_conditions = Box(Architectures, Targets, {"win"})
         => conditions = { SourceListCondition(Wildcard, Wildcard, "win") }
    /\ input_conditions = Configurations
         => conditions = { SourceListCondition(Wildcard, Wildcard, Wildcard) }

\* C6 witness: the full cross product of the support matrix was reduced in
\* three collapsing passes
FullSpanReducedReached ==
  /\ pc = "reduced"
  /\ input_conditions = Configurations
  /\ Cardinality(conditions) = 1

\* the input of testReduceConditions that spans the architectures of
\* (Chromium, win) and the brandings of (ia32, win)
TwoAxisInput ==
  Box(WinArchitectures, {"Chromium"}, {"win"}) \cup Box({"ia32"}, WinTargets, {"win"})

\* C7: that input reduces to (*, Chromium, win) and (ia32, *, win), the
\* condition (ia32, Chromium, win) taking part in both collapses, and a
\* branding wildcard never matches a supported configuration the input lacks,
\* such as (x64, Chrome, win).
TwoAxisCollapse ==
  pc = "reduced" =>
    /\ input_conditions = TwoAxisInput =>
         /\ conditions = { SourceListCondition(Wildcard, "Chromium", "win"),
                           SourceListCondition("ia32", Wildcard, "win") }
         /\ ~MatchesAny(SourceListCondition("x64", "Chrome", "win"), conditions)
    /\ \A d \in conditions :
         d.TARGET = Wildcard =>
           \A config \in SupportedConfigurations :
             Matches(config, d) => MatchesAny(config, input_conditions)

\* C7 witness: the two-axis input was reduced
TwoAxisReducedReached ==
  /\ pc = "reduced"
  /\ input_conditions = TwoAxisInput
  /\ Cardinality(conditions) = 2
  /\ SourceListCondition("ia32", "Chromium", "win") \notin conditions

(***************************************************************************)
(* Properties of CreatePairwiseDisjointSets (SpecPartition).               *)
(***************************************************************************)
InputIndexes == 1..Len(sets)

InputSources == UNION { sets[i].sources : i \in InputIndexes }

\* the inputs a file belongs to
Membership(f) == { i \in InputIndexes : f \in sets[i].sources }

\* C1: the atoms cover exactly the files of the inputs and any two distinct
\* atoms have no file in common.
PartitionCorrectness ==
  pc = "partitioned" =>
    /\ \A f \in Files :
         f \in InputSources <=> \E A \in disjoint_sets : f \in A.sources
    /\ \A A, B \in disjoint_sets :
         A # B => \A f \in A.sources : f \notin B.sources

\* C1 witness: three overlapping inputs were refined into at least three atoms
PartitionSplitReached ==
  /\ pc = "partitioned"
  /\ Len(sets) = 3
  /\ \E i, j \in InputIndexes :
       /\ sets[i].sources \cap sets[j].sources # {}
       /\ sets[i].sources \ sets[j].sources # {}
       /\ sets[j].sources \ sets[i].sources # {}
  /\ Cardinality(disjoint_sets) >= 3

\* C2: the conditions of an atom are the union of the conditions of exactly
\* the inputs that contain all its files; a configuration is a condition of
\* the atom holding a file iff it is a condition of an input with that file.
ConditionFidelity ==
  pc = "partitioned" =>
    /\ \A A \in disjoint_sets :
         A.conditions =
           UNION { sets[i].conditions :
                     i \in { j \in InputIndexes : A.sources \subseteq sets[j].sources } }
    /\ \A f \in InputSources : \A c \in PartitionConditions :
         (\E A \in disjoint_sets : f \in A.sources /\ c \in A.conditions)
           <=> (\E i \in Membership(f) : c \in sets[i].conditions)

\* C2 witness: an atom shared by inputs with different conditions next to an
\* atom only one input holds (testCreatePairwiseDisjointSets_Pair)
ConditionsMergedReached ==
  /\ pc = "partitioned"
  /\ \E A, B \in disjoint_sets :
       /\ Cardinality(A.conditions) = 2
       /\ Cardinality(B.conditions) = 1
       /\ \E i, j \in InputIndexes :
            /\ sets[i].conditions # sets[j].conditions
            /\ A.sources \subseteq sets[i].sources \cap sets[j].sources

\* C3: no atom straddles an input: it lies inside the input or apart from it.
NoStraddling ==
  pc = "partitioned" =>
    \A A \in disjoint_sets : \A i \in InputIndexes :
      \/ A.sources \subseteq sets[i].sources
      \/ A.sources \cap sets[i].sources = {}

\* C3 witness: an input that overlaps an earlier one without containing it
\* or being contained in it was refined
StraddlingInputReached ==
  /\ pc = "partitioned"
  /\ \E i, j \in InputIndexes :
       /\ i < j
       /\ sets[i].sources \cap sets[j].sources # {}
       /\ sets[i].sources \ sets[j].sources # {}
       /\ sets[j].sources \ sets[i].sources # {}
       /\ \E A \in disjoint_sets : A.sources = sets[i].sources \cap sets[j].sources

\* C4: files that belong to exactly the same inputs share an atom, and two
\* inputs with the same files and different conditions give one atom with
\* the union of their conditions.
AtomsMaximal ==
  pc = "partitioned" =>
    /\ \A f, g \in InputSources :
         Membership(f) = Membership(g) =>
           \A A \in disjoint_sets : f \in A.sources <=> g \in A.sources
    /\ (/\ Len(sets) = 2
        /\ sets[1].sources = sets[2].sources
        /\ sets[1].conditions # sets[2].conditions)
         => disjoint_sets =
              { SourceSet(sets[1].sources, sets[1].conditions \cup sets[2].conditions) }

\* C4 witness: two inputs with the same two files under different conditions
\* (testComplexSourceListConditions)
SameFilesCollapsedReached ==
  /\ pc = "partitioned"
  /\ Len(sets) = 2
  /\ sets[1].sources = sets[2].sources
  /\ Cardinality(sets[1].sources) = 2
  /\ sets[1].conditions \cap sets[2].conditions = {}
  /\ Cardinality(disjoint_sets) = 1

Orderings(n) ==
  { p \in [1..n -> 1..n] : \A i, j \in 1..n : p[i] = p[j] => i = j }

Permuted(list, p) == [i \in 1..Len(list) |-> list[p[i]]]

\* C8: every permutation of the input list gives the same set of atoms.
OrderIndependence ==
  pc = "partitioned" =>
    \A p \in Orderings(Len(sets)) :
      CreatePairwiseDisjointSets(Permuted(sets, p)) = disjoint_sets

\* C8 witness: three different overlapping inputs, so that the permutations
\* of the list refine in different orders
PermutableInputReached ==
  /\ pc = "partitioned"
  /\ Len(sets) = 3
  /\ Cardinality({ sets[i] : i \in InputIndexes }) = 3
  /\ \A i, j \in InputIndexes : sets[i].sources \cap sets[j].sources # {}
  /\ sets[1].conditions # sets[3].conditions
  /\ Cardinality(disjoint_sets) >= 2

(***************************************************************************)
(* Properties of GenerateGnStanza (SpecStanza).                            *)
(***************************************************************************)

\* C12: the guard is the OR over the conditions of the AND of one clause per
\* non-wildcard attribute, and the build of a concrete configuration
\* satisfies it if and only if the configuration matches one of the
\* conditions; {(ia32,Chromium,win), (x64,Chromium,linux)} never admits
\* (ia32, Chromium, linux).
GuardMatchesConditions ==
  pc = "rendered" =>
    /\ Cardinality(stanza) = Cardinality(conditions)
    /\ \A c \in conditions :
         { clause.name : clause \in Conjunction(c) } \ {"arm_use_neon"} =
           { IF attribute = "ARCHITECTURE" THEN "current_cpu"
             ELSE IF attribute = "TARGET" THEN "ffmpeg_branding"
             ELSE PlatformVariable(c.PLATFORM) :
               attribute \in { x \in Attr : c[x] # Wildcard } }
    /\ \A config \in Configurations :
         SatisfiesGuard(GnArgs(config), stanza) <=> MatchesAny(config, conditions)
    /\ conditions = { SourceListCondition("ia32", "Chromium", "win"),
                      SourceListCondition("x64", "Chromium", "linux") }
         => ~SatisfiesGuard(GnArgs(SourceListCondition("ia32", "Chromium", "linux")),
                            stanza)

(***************************************************************************)
(* Properties of FixObjectBasenameCollisions (SpecCollisions).             *)
(***************************************************************************)
InputPaths == UNION { input_sets[i] : i \in DOMAIN input_sets }

FixedPaths == UNION { source_sets[i] : i \in DOMAIN source_sets }

\* C13: once FixObjectBasenameCollisions has returned, no two files of the
\* SourceSets, in the same one or in different ones, have the same basename,
\* renamed files included.
NoBasenameCollisionLeft ==
  pc = "fixed" =>
    \A p, q \in FixedPaths : p # q => p.basename # q.basename

\* position of the first visit of a file
VisitIndex(p) == CHOOSE i \in DOMAIN visited : visited[i] = p

\* the files visited before p that have its basename
SeenBefore(p) ==
  { q \in InputPaths :
      q # p /\ q.basename = p.basename /\ VisitIndex(q) < VisitIndex(p) }

RenamedPaths == { r[1] : r \in observed_renames }

\* C14 as stated: every file whose basename occurs more than once is renamed,
\* the first one encountered included; a/foo.c and b/foo.c are both renamed.
EveryOccurrenceRenamed ==
  pc = "fixed" =>
    /\ \A p, q \in InputPaths :
         (p # q /\ p.basename = q.basename) => p \in RenamedPaths
    /\ { Path("a", <<"foo">>, "c"), Path("b", <<"foo">>, "c") } \subseteq InputPaths
         => { <<Path("a", <<"foo">>, "c"), Path("a", <<RENAME_PREFIX, "a", "foo">>, "c")>>,
              <<Path("b", <<"foo">>, "c"), Path("b", <<RENAME_PREFIX, "b", "foo">>, "c")>> }
              \subseteq observed_renames

\* C14, amended: of the n files with one basename exactly n - 1 are renamed,
\* files alone in their SourceSet included; the one that keeps its path is
\* the first one encountered.  a/foo.c and b/foo.c are both renamed when a
\* file named foo was encountered before them.
AllButFirstRenamed ==
  pc = "fixed" =>
    /\ \A p \in InputPaths :
         LET same == { q \in InputPaths : q.basename = p.basename }
             kept == same \ RenamedPaths
         IN  /\ Cardinality(same \cap RenamedPaths) = Cardinality(same) - 1
             /\ \A k \in kept : SeenBefore(k) = {}
    /\ RenamedPaths \subseteq InputPaths
    /\ \A p \in { Path("a", <<"foo">>, "c"), Path("b", <<"foo">>, "c") } \cap InputPaths :
         SeenBefore(p) # {} =>
           <<p, Path(p.folder, <<RENAME_PREFIX, p.folder, "foo">>, "c")>> \in observed_renames

\* a file alone in its SourceSet is renamed, the first file seen is not
AloneRenamedFirstKeptReached ==
  /\ pc = "fixed"
  /\ \E i, j \in DOMAIN input_sets :
       /\ i < j
       /\ Cardinality(input_sets[j]) = 1
       /\ input_sets[j] \subseteq RenamedPaths
       /\ input_sets[i] \cap RenamedPaths = {}
       /\ \E p \in input_sets[i], q \in input_sets[j] : p.basename = q.basename

\* the SourceSet of the input list a file belongs to
SetOf(p) == CHOOSE k \in DOMAIN input_sets : p \in input_sets[k]

\* C15: the SourceSets are visited in list order; basenames are compared
\* without extension; the first file seen with a basename keeps its path and
\* exactly the files seen later with it are renamed, inside their folder, to
\* autorename_<folder>_<filename>, or autorename_<filename> at top level.
FirstSeenKeepsPath ==
  /\ \A i, j \in DOMAIN visited : i < j => SetOf(visited[i]) <= SetOf(visited[j])
  /\ pc = "fixed" =>
       /\ observed_renames =
            { <<p, Path(p.folder,
                        IF p.folder = "" THEN <<RENAME_PREFIX>> \o p.basename
                        ELSE <<RENAME_PREFIX, p.folder>> \o p.basename,
                        p.ext)>> :
                p \in { q \in InputPaths : SeenBefore(q) # {} } }
       /\ input_sets = << {Path("", <<"foo">>, "c")},
                          {Path("a", <<"foo">>, "c"), Path("b", <<"foo">>, "c")} >>
            => observed_renames =
                 { <<Path("a", <<"foo">>, "c"), Path("a", <<"autorename", "a", "foo">>, "c")>>,
                   <<Path("b", <<"foo">>, "c"), Path("b", <<"autorename", "b", "foo">>, "c")>> }
       /\ input_sets = << {Path("", <<"foo">>, "c")}, {Path("", <<"foo">>, "asm")},
                          {Path("a", <<"foo">>, "S"), Path("b", <<"foo">>, "asm")} >>
            => observed_renames =
                 { <<Path("", <<"foo">>, "asm"), Path("", <<"autorename", "foo">>, "asm")>>,
                   <<Path("a", <<"foo">>, "S"), Path("a", <<"autorename", "a", "foo">>, "S")>>,
                   <<Path("b", <<"foo">>, "asm"),
                     Path("b", <<"autorename", "b", "foo">>, "asm")>> }

\* the second case of the unit test has run to its end
ExtensionCaseFixedReached ==
  /\ pc = "fixed"
  /\ input_sets = << {Path("", <<"foo">>, "c")}, {Path("", <<"foo">>, "asm")},
                     {Path("a", <<"foo">>, "S"), Path("b", <<"foo">>, "asm")} >>
  /\ Cardinality(observed_renames) = 3

OutOfDomainRejected ==
  (\E i \in InputIndexes : \E c \in sets[i].conditions : ~InDomain(c))
    => /\ pc # "partitioned"
       /\ idx = 2

\* C18, amended: conditions with values outside the ranges are partitioned
\* like any others, without error: every file of the inputs ends in exactly
\* one atom, under the conditions of the inputs that hold it, and the two
\* SourceSets of testComplexSourceListConditions give one atom.
OutOfDomainPartitioned ==
  pc = "partitioned" =>
    /\ \A i \in InputIndexes : \A c \in sets[i].conditions : ~InDomain(c)
    /\ \A f \in InputSources :
         \E A \in disjoint_sets :
           /\ f \in A.sources
           /\ A.conditions = UNION { sets[i].conditions : i \in Membership(f) }
           /\ \A B \in disjoint_sets : f \in B.sources => B = A
    /\ sets = << SourceSet({"common"}, {SourceListCondition("x86", "c", "win")}),
                 SourceSet({"common"}, {SourceListCondition("x64", "c", "linux")}) >>
         => disjoint_sets = { SourceSet({"common"}, ComplexConditions) }

\* testComplexSourceListConditions has returned its single atom
ComplexCaseReached ==
  /\ pc = "partitioned"
  /\ sets = << SourceSet({"common"}, {SourceListCondition("x86", "c", "win")}),
               SourceSet({"common"}, {SourceListCondition("x64", "c", "linux")}) >>
  /\ Cardinality(disjoint_sets) = 1

(***************************************************************************)
(* Degenerate inputs (SpecPartition).                                      *)
(***************************************************************************)
PairwiseDisjointInput ==
  \A i, j \in InputIndexes : i # j => sets[i].sources \cap sets[j].sources = {}

\* C20: CreatePairwiseDisjointSets returns no atom for the empty list and
\* exactly the inputs when their files are pairwise disjoint;
\* ReduceConditionalLogic returns the single universal condition unchanged.
DegenerateInputsWellDefined ==
  /\ pc = "partitioned" =>
       /\ sets = <<>> => disjoint_sets = {}
       /\ PairwiseDisjointInput => disjoint_sets = { sets[i] : i \in InputIndexes }
  /\ ReduceConditionalLogic({UniversalCondition}) = {UniversalCondition}

\* three inputs without a common file came back as three atoms
DisjointInputsReturnedReached ==
  /\ pc = "partitioned"
  /\ Len(sets) = 3
  /\ PairwiseDisjointInput
  /\ Cardinality(disjoint_sets) = 3

(***************************************************************************)
(* Termination of ReduceConditionalLogic (SpecReduceFair).                 *)
(***************************************************************************)

\* C30: for every non-empty condition set over the support matrix the
\* repeated passes reach a pass without collapse: ReduceConditionalLogic
\* returns.
ReduceTerminates == <>(pc = "reduced")

\* a reduction that needed more than one collapsing pass has returned
SecondPassReducedReached ==
  /\ pc = "reduced"
  /\ ReducePass(input_conditions) # input_conditions
  /\ ReducePass(input_conditions) # conditions

(***************************************************************************)
(* Properties of CombineObjectBuildsIntoSourceSets (SpecXnnpack).          *)
(***************************************************************************)
Directory(src) == SubSeq(src, 1, Len(src) - 1)

\* C22: every SourceSet returned holds sources of a single directory only,
\* and no two of its sources have the same basename.
SingleDirectoryPerSourceSet ==
  pc = "combined" =>
    \A ss \in source_set_list : \A s1, s2 \in ss.srcs :
      /\ Directory(s1) = Directory(s2)
      /\ s1 # s2 => s1[Len(s1)] # s2[Len(s2)]

(***************************************************************************)
(* Properties of robosushi (SpecRobo).                                     *)
(***************************************************************************)
RECURSIVE Expand(_)
\* the steps RunSteps comes to, in order, when no step fails: each name,
\* and behind a roll-up the steps it lists
Expand(names) ==
  IF names = <<>> THEN <<>>
  ELSE LET name == Head(names)
       IN  (IF name \in RollUpSteps THEN <<name>> \o Expand(RollUp(name)) ELSE <<name>>)
             \o Expand(Tail(names))

RECURSIVE PlanFrom(_)
PlanFrom(k) ==
  IF k > Len(calls) THEN <<>> ELSE Expand(calls[k].step_names) \o PlanFrom(k + 1)

\* the steps of all calls main made to RunSteps so far
Plan == PlanFrom(1)

StepsOfTrace == [i \in DOMAIN trace |-> trace[i].step]

IsPrefix(s, t) == Len(s) <= Len(t) /\ SubSeq(t, 1, Len(s)) = s

Failed(event) == event.skip_fn = "raised" \/ event.do_fn = "raised"

\* C25: RunSteps takes the steps in list order and stops at the first
\* failure: the steps begun are a prefix of the listed ones, only the last
\* one begun can have failed, a failure (a raising skip_fn or do_fn, or an
\* unknown name) ends the process, and a process that ends without one has
\* been through the whole list.
RunsInListOrderUntilFailure ==
  /\ IsPrefix(StepsOfTrace, Plan)
  /\ \A i \in DOMAIN trace : Failed(trace[i]) => i = Len(trace) /\ pc = "raised"
  /\ pc = "raised" =>
        \/ trace # <<>> /\ Failed(trace[Len(trace)])
        \/ /\ exception = "Unknown step"
           /\ Len(trace) < Len(Plan)
           /\ Plan[Len(trace) + 1] \notin StepKeys
  /\ pc = "exited" => StepsOfTrace = Plan

StoppedInsideListReached ==
  /\ pc = "raised"
  /\ Len(trace) >= 2
  /\ Failed(trace[Len(trace)])
  /\ Len(trace) < Len(Plan)
  /\ Plan[Len(trace) + 1] \in StepKeys

\* C26: the do_fn of a step is called unless its skip_fn was asked and
\* answered True (or raised); a skip_fn is asked exactly when skipping is
\* allowed and the step has one, so with skipping disallowed none is asked
\* and every step's do_fn is called; with force_gn_rebuild set
\* build_gn_configs is not skipped.
SkippedOnlyWhenAllowedAndDone ==
  /\ [](\A i \in DOMAIN trace :
          /\ trace[i].do_fn = "not called" => trace[i].skip_fn \in { "True", "raised" }
          /\ trace[i].skip_fn = "False" => trace[i].do_fn # "not called"
          /\ trace[i].skip_fn # "not called" => trace[i].step \in SkipFnSteps)
  /\ [][(pc = "RunSteps" /\ Len(trace') = Len(trace) + 1) =>
          LET event == trace'[Len(trace')]
          IN  /\ ~cfg.skip_allowed =>
                    event.skip_fn = "not called" /\ event.do_fn # "not called"
              /\ (cfg.skip_allowed /\ event.step \in SkipFnSteps) =>
                    event.skip_fn # "not called"
              /\ (cfg.force_gn_rebuild /\ event.step = "build_gn_configs") =>
                    event.do_fn # "not called"]_vars

SkippedThenDoneWithoutSkipReached ==
  /\ pc = "RunSteps"
  /\ ~cfg.skip_allowed
  /\ \E i, j \in DOMAIN trace :
       /\ i < j
       /\ trace[i].step = trace[j].step
       /\ trace[i].skip_fn = "True"
       /\ trace[j].skip_fn = "not called"
       /\ trace[j].do_fn = "returned"

\* C28: the names the roll-ups list are keys of steps: "Unknown step" is
\* never raised for a name that a roll-up lists.
RollUpStepsAreKnown ==
  (pc = "raised" /\ exception = "Unknown step") =>
     Top.step_names \notin { SetupSteps, AutoMergeSteps }

\* C27: when create_sushi_branch fails, the branch it made is gone again
\* and the configuration is on the branch it was on.
FailedCheckoutLeavesNoBranch ==
  (pc = "raised" /\ trace # <<>> /\ trace[Len(trace)].step = "create_sushi_branch") =>
     /\ BranchName(sushi_branch_prefix, run) \notin world.branches
     /\ cfg.branch_name = world.head

\* C21: setup is idempotent: when an earlier invocation went through all
\* five steps of setup, the setup of a later invocation raises only if an
\* external command fails.
SetupIdempotent ==
  (pc = "raised" /\ setup_done /\ Len(calls) = 1 /\ Top.step_names = SetupSteps) =>
     exception = "RuntimeError"

\* C29: main calls RunSteps with a non-empty step list once, and only
\* after the last option is applied.
StepListRunOnceAfterAllOptions ==
  /\ \A k \in DOMAIN calls :
       calls[k].step_names # <<>> => calls[k].applied = Len(argv)
  /\ Cardinality({ k \in DOMAIN calls : calls[k].step_names # <<>> }) <= 1

\* C23: erase_build_output removes build output only off a sushi branch:
\* with a sushi branch name in the configuration it returns and leaves the
\* checkout as it is, without one it removes and never adds, and leaves
\* nothing when it returns; the configuration has a sushi branch name once
\* create_sushi_branch has returned, and from the start in a process that
\* finds a sushi branch checked out.
ErasedOnlyOffSushiBranch ==
  /\ [](\A i \in DOMAIN trace :
          trace[i] = Event("create_sushi_branch", "not called", "returned") =>
            cfg.sushi_branch_name # None)
  /\ [][(pc = "shell" /\ pc' = "main") =>
          (cfg'.sushi_branch_name # None <=> world.head.prefix = sushi_branch_prefix)]_vars
  /\ [][(pc = "RunSteps" /\ Len(trace') = Len(trace) + 1
            /\ trace'[Len(trace')].step = "erase_build_output") =>
          /\ world'.build_output \subseteq world.build_output
          /\ cfg.sushi_branch_name # None =>
                world' = world /\ trace'[Len(trace')].do_fn = "returned"
          /\ (cfg.sushi_branch_name = None /\ trace'[Len(trace')].do_fn = "returned") =>
                world'.build_output = {}]_vars

BuildOutputKeptOnSushiBranchReached ==
  /\ pc = "RunSteps"
  /\ world.build_output # {}
  /\ \E i, j \in DOMAIN trace :
       /\ i < j
       /\ j = Len(trace)
       /\ trace[i] = Event("create_sushi_branch", "not called", "returned")
       /\ trace[j] = Event("erase_build_output", "not called", "returned")
====
